---- MODULE Spec2Model ----
(***************************************************************************)
(* Model of auto_barnet_restock.py: the Playwright navigation of the       *)
(* Barnet portal, the clean_and_reduce transformation of the exported      *)
(* sheet, and main's choice between the team mail and the alert mail.      *)
(*                                                                         *)
(* Text is modelled as a sequence of one-character strings so that         *)
(* strip(), lower(), startswith() and the regular expression of            *)
(* clean_and_reduce are computed on characters.  A cell of a sheet is a    *)
(* record [t, s, n]: t = "nan" (empty cell), t = "str" (text s) or         *)
(* t = "num" (number, n in tenths).                                        *)
(***************************************************************************)
EXTENDS Integers, Sequences, FiniteSets, TLC

VARIABLES
    pc,             \* position of main: the call it is about to make
    nav,            \* navigation state reached by the calls that returned
    username,       \* main: os.getenv("BARNET_USER") or os.getenv("BARNET_USERNAME")
    password,       \* main: os.getenv("BARNET_PASS") or os.getenv("BARNET_PASSWORD")
    IS_CI,          \* module-level run-mode flag
    events,         \* the kinds of page and file operations attempted so far
    caught,         \* places where an exception was caught and the run went on
    abortCause,     \* the exception that left main, "" while none did
    downloaded,     \* the sheet saved by export_to_excel, NoFile before
    header_row_idx, \* clean_and_reduce: header row chosen (-1 before)
    prod,           \* clean_and_reduce: the product rows after coercion
    outDoc,         \* the rows written to out_path
    summary,        \* (rows_total, rows_gt0) returned by clean_and_reduce
    mail,           \* what main's decision did with the mail transport
    locators,       \* _first_visible: the candidate locators passed
    fv,             \* _first_visible: what the call did and returned
    storeCall       \* select_store: the page it met and what its calls did

vars == <<pc, nav, username, password, IS_CI, events, caught, abortCause,
          downloaded, header_row_idx, prod, outDoc, summary, mail, locators, fv,
          storeCall>>

runVars == <<pc, nav, username, password, IS_CI, events, caught, abortCause>>
cleanVars == <<downloaded, header_row_idx, prod, outDoc, summary>>
fvVars == <<locators, fv>>

-----------------------------------------------------------------------------
(* Bounds of the model *)

\* longest candidate list explored for _first_visible
MaxLocators == 3
\* largest rows_total drawn for main's decision
MaxSummary == 5
\* most product rows of a sheet of the grouping family
MaxGroupRows == 4
\* most calls of select_store on one page
MaxStoreCalls == 2

-----------------------------------------------------------------------------
(* Generic helpers *)

Min(a, b) == IF a < b THEN a ELSE b

Range(s) == {s[i] : i \in 1..Len(s)}

\* all sequences over S of length 0..n
SeqsUpTo(S, n) == UNION {[1..k -> S] : k \in 0..n}

NoneVal == "None"

\* Python truthiness of an optional string
Truthy(x) == x # NoneVal /\ x # ""

-----------------------------------------------------------------------------
(* _first_visible *)

\* A candidate locator as the page answers it:
\*   kind "none"          the argument is None / falsy
\*   kind "raise_count"   loc.count() raises
\*   kind "raise_visible" loc.count() > 0 and loc.first.is_visible() raises
\*   kind "ok"            count() = Len(matches), matches[k] = visibility of match k
Locator(kind, matches) == [kind |-> kind, matches |-> matches]

LocatorKinds ==
    {Locator("none", <<>>), Locator("raise_count", <<>>),
     Locator("raise_visible", <<TRUE>>),
     Locator("ok", <<>>), Locator("ok", <<TRUE>>), Locator("ok", <<FALSE>>),
     Locator("ok", <<TRUE, FALSE>>), Locator("ok", <<FALSE, TRUE>>)}

\* _first_visible without the is_visible() test: any match is taken
TryLocator_NoVisibility(loc) ==
    CASE loc.kind = "none" -> "miss"
      [] loc.kind = "raise_count" -> "raise"
      [] loc.kind = "raise_visible" -> "hit"
      [] OTHER -> IF Len(loc.matches) > 0 THEN "hit" ELSE "miss"

\* The outcome of the try body for one candidate:
\* "hit" (the if is true), "miss" (the if is false), "raise" (an exception).
TryLocator(loc) ==
    CASE loc.kind = "none" -> "miss"
      [] loc.kind = "raise_count" -> "raise"
      [] loc.kind = "raise_visible" -> "raise"
      [] OTHER -> IF Len(loc.matches) > 0 /\ loc.matches[1] THEN "hit" ELSE "miss"

\* What the except clause does with an exception of the try body:
\* "continue" goes on with the next candidate.
OnLookupError == "continue"

RECURSIVE FirstVisibleFrom(_, _, _)
\* the for loop from candidate i on; examined = the candidates tried so far
FirstVisibleFrom(locs, i, examined) ==
    IF i > Len(locs)
    THEN [ret |-> 0, match |-> 0, examined |-> examined, raised |-> FALSE]
    ELSE LET r == TryLocator(locs[i])
             ex == Append(examined, i)
         IN CASE r = "hit" -> [ret |-> i, match |-> 1, examined |-> ex, raised |-> FALSE]
              [] r = "raise" /\ OnLookupError # "continue" ->
                    [ret |-> 0, match |-> 0, examined |-> ex, raised |-> TRUE]
              [] OTHER -> FirstVisibleFrom(locs, i + 1, ex)

\* _first_visible(*locators): ret = index of the candidate whose .first is
\* returned (0 = None), match = which of its matches the handle denotes.
FirstVisible(locs) == FirstVisibleFrom(locs, 1, <<>>)

\* the handle is not None
Resolved(locs) == FirstVisible(locs).ret # 0

-----------------------------------------------------------------------------
(* Text: sequences of one-character strings *)

UpperChars == <<"A","B","C","D","E","F","G","H","I","J","K","L","M",
                "N","O","P","Q","R","S","T","U","V","W","X","Y","Z">>
LowerChars == <<"a","b","c","d","e","f","g","h","i","j","k","l","m",
                "n","o","p","q","r","s","t","u","v","w","x","y","z">>
DigitChars == <<"0","1","2","3","4","5","6","7","8","9">>

IsUpper(c) == \E i \in 1..Len(UpperChars) : UpperChars[i] = c
IsDigit(c) == \E i \in 1..Len(DigitChars) : DigitChars[i] = c
DigitVal(c) == (CHOOSE i \in 1..Len(DigitChars) : DigitChars[i] = c) - 1

\* str.lower() of one character
LowerChar(c) ==
    IF IsUpper(c)
    THEN LowerChars[CHOOSE i \in 1..Len(UpperChars) : UpperChars[i] = c]
    ELSE c

\* str.lower()
Lower(s) == [i \in 1..Len(s) |-> LowerChar(s[i])]

IsSpace(c) == c = " "

\* str.strip(): leading and trailing whitespace removed
Strip(s) ==
    LET keep == {i \in 1..Len(s) : ~IsSpace(s[i])}
    IN IF keep = {} THEN <<>>
       ELSE LET lo == CHOOSE i \in keep : \A j \in keep : i <= j
                hi == CHOOSE i \in keep : \A j \in keep : j <= i
            IN SubSeq(s, lo, hi)

\* str.startswith(p)
StartsWith(s, p) == Len(s) >= Len(p) /\ SubSeq(s, 1, Len(p)) = p

\* s.replace(c, ""): every occurrence of the character c removed
RemoveChar(s, c) == SelectSeq(s, LAMBDA x : x # c)

\* p occurs in s starting at position i
OccursAt(s, p, i) == i >= 1 /\ i + Len(p) - 1 <= Len(s) /\ SubSeq(s, i, i + Len(p) - 1) = p

\* re.search(r"^[A-Z].* - .*$", s) on one line of text
MatchesSectionHeader(s) ==
    /\ Len(s) >= 1
    /\ IsUpper(s[1])
    /\ \E i \in 2..Len(s) : OccursAt(s, <<" ", "-", " ">>, i)

RECURSIVE NatStr(_)
\* str() of a natural number
NatStr(k) == IF k < 10 THEN <<DigitChars[k + 1]>>
             ELSE NatStr(k \div 10) \o <<DigitChars[(k % 10) + 1]>>

-----------------------------------------------------------------------------
(* Cells of a sheet as pandas hands them to the code *)

NaN == [t |-> "nan", s |-> <<>>, n |-> 0]
Str(s) == [t |-> "str", s |-> s, n |-> 0]
\* a number, given in tenths: Num(25) is 2.5, Num(10010) is 1001.0
Num(n) == [t |-> "num", s |-> <<>>, n |-> n]

Abs(n) == IF n < 0 THEN 0 - n ELSE n

\* str(v) of a cell value: "nan" for the empty cell, the float's repr for a number
PyStr(v) ==
    CASE v.t = "nan" -> <<"n", "a", "n">>
      [] v.t = "str" -> v.s
      [] OTHER -> (IF v.n < 0 THEN <<"-">> ELSE <<>>)
                  \o NatStr(Abs(v.n) \div 10) \o <<".">> \o NatStr(Abs(v.n) % 10)

\* line 317: x.strip() if isinstance(x, str) else x
StripCell(v) == IF v.t = "str" THEN Str(Strip(v.s)) ELSE v

-----------------------------------------------------------------------------
(* Labels *)

L_SKU == <<"S","K","U">>
L_Description == <<"D","e","s","c","r","i","p","t","i","o","n">>
L_Category == <<"C","a","t","e","g","o","r","y">>
L_Group == <<"G","r","o","u","p">>
L_UOM == <<"U","O","M">>
L_SoldQTY == <<"S","o","l","d"," ","Q","T","Y">>
L_SoldQty == <<"S","o","l","d"," ","Q","t","y">>
L_QtySold == <<"Q","t","y"," ","S","o","l","d">>
L_Unit == <<"U","n","i","t">>
L_Total == <<"T","o","t","a","l">>

REQUIRED == <<L_SKU, L_Description, L_Category, L_Group, L_UOM, L_SoldQTY>>
KEEP_COLS == <<L_SKU, L_Description, L_Category, L_UOM, L_SoldQTY>>

\* the number of leading rows the header scan looks at
ScanWindow == 40

-----------------------------------------------------------------------------
(* clean_and_reduce, step 1: header detection *)

\* the text comparison of the scan: h.lower() == v.lower()
SameLabel(h, v) == Lower(h) = Lower(v)

\* row_vals = [str(v).strip() for v in row]; all(any(...) for h in REQUIRED)
RowHasRequired(row) ==
    LET row_vals == [k \in 1..Len(row) |-> Strip(PyStr(StripCell(row[k])))]
    IN \A r \in 1..Len(REQUIRED) :
          \E k \in 1..Len(row_vals) : SameLabel(REQUIRED[r], row_vals[k])

\* the scan without its 40-row window: range(len(raw))
ScanLimit_WholeSheet(raw) == Len(raw)

\* range(min(40, len(raw)))
ScanLimit(raw) == Min(ScanWindow, Len(raw))

\* where a loop over ascending indices breaks at its first hit; -1 stands
\* for None, the loop having run to its end
FirstHit(hits) == IF hits = {} THEN -1 ELSE CHOOSE i \in hits : \A j \in hits : i <= j

\* for i in range(min(40, len(raw))): if all(...): header_row_idx = i; break
ScanHeader(raw) ==
    FirstHit({i \in 0..(ScanLimit(raw) - 1) : RowHasRequired(raw[i + 1])})

\* header_row_idx after "if header_row_idx is None: header_row_idx = 0"
HeaderRowIdx(raw) ==
    LET found == ScanHeader(raw)
    IN IF found = -1 THEN 0 ELSE found


-----------------------------------------------------------------------------
(* clean_and_reduce, step 2: column names *)

\* the name pandas gives column k (1-based) of header row `row`: the cell's
\* text, "Unnamed: <k-1>" for an empty cell, ".<n>" appended to a repeated name
RawColumnName(row, k) ==
    IF row[k].t = "nan" THEN <<"Unnamed: ">> \o NatStr(k - 1) ELSE PyStr(row[k])

PandasColumnName(row, k) ==
    LET earlier == Cardinality({j \in 1..(k - 1) : RawColumnName(row, j) = RawColumnName(row, k)})
    IN IF earlier = 0 THEN RawColumnName(row, k)
       ELSE RawColumnName(row, k) \o <<".">> \o NatStr(earlier)

\* df.columns = [str(c).strip() for c in df.columns]; an empty sheet has no columns
Columns(sheet, h) ==
    IF Len(sheet) = 0 THEN <<>>
    ELSE [k \in 1..Len(sheet[h + 1]) |-> Strip(PandasColumnName(sheet[h + 1], k))]

\* if k in df.columns and v not in df.columns: df.rename(columns={k: v})
RenameAlias(cols, k, v) ==
    IF k \in Range(cols) /\ v \notin Range(cols)
    THEN [i \in 1..Len(cols) |-> IF cols[i] = k THEN v ELSE cols[i]]
    ELSE cols

\* the alias loop, in the dict's order
NormalizeColumns(cols) ==
    RenameAlias(RenameAlias(RenameAlias(cols, L_SoldQty, L_SoldQTY),
                            L_QtySold, L_SoldQTY),
                L_Unit, L_UOM)

\* missing = [c for c in KEEP if c not in df.columns]
MissingColumns(cols) == {c \in Range(KEEP_COLS) : c \notin Range(cols)}

\* position of the column called name
ColIdx(cols, name) == CHOOSE i \in 1..Len(cols) : cols[i] = name /\ \A j \in 1..(i - 1) : cols[j] # name

\* the rows of df: those below the header row, df index 0 first
DataRows(sheet, h) == SubSeq(sheet, h + 2, Len(sheet))

-----------------------------------------------------------------------------
(* clean_and_reduce, step 3: non-product lines *)

\* sku_str = df["SKU"].astype(str).str.strip()
SkuStr(v) == Strip(PyStr(v))

IsBlankSku(sku) == SkuStr(sku) = <<>> \/ SkuStr(sku) = <<"n", "a", "n">>
IsTotalSku(sku) == StartsWith(SkuStr(sku), L_Total)
\* df["Description"].isna()
IsNa(v) == v.t = "nan"
\* the section-header test without the Description condition
IsSectionHeader_AnyDescription(sku, desc) == MatchesSectionHeader(SkuStr(sku))
IsSectionHeader(sku, desc) == MatchesSectionHeader(SkuStr(sku)) /\ IsNa(desc)

\* ~(is_blank | is_total | is_section_header)
IsProductLine(sku, desc) ==
    ~(IsBlankSku(sku) \/ IsTotalSku(sku) \/ IsSectionHeader(sku, desc))

-----------------------------------------------------------------------------
(* clean_and_reduce: type coercion *)

RECURSIVE DigitsValue(_)
DigitsValue(ds) == IF Len(ds) = 0 THEN 0
                   ELSE DigitsValue(SubSeq(ds, 1, Len(ds) - 1)) * 10 + DigitVal(ds[Len(ds)])

\* pd.to_numeric(text, errors="coerce") for plain decimal text: an optional
\* sign, digits, an optional fraction; anything else is NaN.  The value is
\* kept in tenths, further digits of the fraction dropped.
ParseNumeric(s) ==
    LET signed == Len(s) > 0 /\ s[1] \in {"-", "+"}
        neg == Len(s) > 0 /\ s[1] = "-"
        b == IF signed THEN Tail(s) ELSE s
        dots == {i \in 1..Len(b) : b[i] = "."}
        wellFormed == /\ Len(b) > 0
                      /\ \A i \in 1..Len(b) : IsDigit(b[i]) \/ b[i] = "."
                      /\ Cardinality(dots) <= 1
                      /\ \E i \in 1..Len(b) : IsDigit(b[i])
        dot == IF dots = {} THEN Len(b) + 1 ELSE CHOOSE i \in dots : TRUE
        whole == DigitsValue(SubSeq(b, 1, dot - 1))
        tenth == IF dot + 1 <= Len(b) THEN DigitVal(b[dot + 1]) ELSE 0
        mag == whole * 10 + tenth
    IN IF wellFormed THEN Num(IF neg THEN 0 - mag ELSE mag) ELSE NaN

\* def to_num(x)
to_num(x) ==
    IF x.t = "str"
    THEN ParseNumeric(Strip(RemoveChar(RemoveChar(x.s, "$"), ",")))
    ELSE x

\* .fillna(0).astype(int): NaN becomes 0, a float is truncated toward zero
FillnaAsInt(v) ==
    IF v.t = "nan" THEN 0
    ELSE IF v.n >= 0 THEN v.n \div 10 ELSE 0 - ((0 - v.n) \div 10)

SoldQty(x) == FillnaAsInt(to_num(x))

\* def clean_sku(x): an integer-valued float becomes the int, anything else
\* its stripped text
clean_sku(x) ==
    IF x.t = "num" /\ x.n % 10 = 0 THEN Num(x.n) ELSE Str(Strip(PyStr(x)))

\* prod = prod[prod["Category"].notna()]; astype(str).str.strip(); != ""
CategoryText(v) == Strip(PyStr(v))
HasCategory(v) == ~IsNa(v) /\ CategoryText(v) # <<>>

\* one row of prod; idx is the row's df index
ProductRow(cols, row, idx) ==
    [idx |-> idx,
     SKU |-> clean_sku(row[ColIdx(cols, L_SKU)]),
     Description |-> row[ColIdx(cols, L_Description)],
     Category |-> CategoryText(row[ColIdx(cols, L_Category)]),
     UOM |-> row[ColIdx(cols, L_UOM)],
     SoldQTY |-> SoldQty(row[ColIdx(cols, L_SoldQTY)])]

\* whether df row `row` is in prod when rows_total is taken
KeepRow(cols, row) ==
    /\ IsProductLine(row[ColIdx(cols, L_SKU)], row[ColIdx(cols, L_Description)])
    /\ HasCategory(row[ColIdx(cols, L_Category)])

\* prod = df[mask]: the kept rows of df, in df order, each with its df index
ProductRows(cols, rows) ==
    LET kept == SelectSeq([i \in 1..Len(rows) |-> i], LAMBDA i : KeepRow(cols, rows[i]))
    IN [k \in 1..Len(kept) |-> ProductRow(cols, rows[kept[k]], kept[k] - 1)]

\* rows_gt0 = int((prod["Sold QTY"] > 0).sum())
RowsGt0(p) == Cardinality({i \in 1..Len(p) : p[i].SoldQTY > 0})


-----------------------------------------------------------------------------
(* clean_and_reduce, step 4: the workbook *)

\* one ws.append(...): kind names which append of the code wrote the line
Line(kind, cells) == [kind |-> kind, cells |-> cells]

LabelCells(labels) == [k \in 1..Len(labels) |-> Str(labels[k])]

\* the sheet written when a required column is missing:
\* pd.DataFrame(columns=[...]).to_excel(out_path, index=False)
HeaderOnlyDoc == <<Line("header", LabelCells(KEEP_COLS))>>

TitleBlock ==
    <<Line("title", <<Str(<<"Sales By Product">>)>>),
      Line("title", <<Str(<<"Astoria Liquor">>)>>),
      Line("title", <<Str(<<"yesterday %m/%d/%y">>)>>),
      Line("title", <<Str(<<"Created: now">>)>>),
      Line("blank", <<Str(<<>>)>>)>>

RECURSIVE FirstSeen(_, _)
\* pd.factorize(prod["Category"], sort=False): the distinct categories in
\* order of first appearance
FirstSeen(p, seen) ==
    IF Len(p) = 0 THEN seen
    ELSE FirstSeen(Tail(p),
                   IF Head(p).Category \in Range(seen) THEN seen
                   ELSE Append(seen, Head(p).Category))

\* the categories in order of last appearance
CategoryOrder_LastSeen(p) ==
    LET rev(s) == [i \in 1..Len(s) |-> s[Len(s) + 1 - i]]
    IN rev(FirstSeen(rev(p), <<>>))

CategoryOrder(p) == FirstSeen(p, <<>>)

\* grp: the rows of one category, in the order of prod
Group(p, category) == SelectSeq(p, LAMBDA r : r.Category = category)

RECURSIVE SumQty(_)
\* grp["Sold QTY"].sum()
SumQty(g) == IF Len(g) = 0 THEN 0 ELSE Head(g).SoldQTY + SumQty(Tail(g))

DataLine(r) ==
    Line("data", <<r.SKU, r.Description, Str(r.Category), r.UOM, Num(r.SoldQTY * 10)>>)

\* the lines appended for one category
Section(p, category) ==
    LET grp == Group(p, category)
    IN <<Line("category", <<Str(category)>>), Line("header", LabelCells(KEEP_COLS))>>
       \o [k \in 1..Len(grp) |-> DataLine(grp[k])]
       \o <<Line("total", <<Str(L_Total \o <<" ">> \o category), Str(<<>>), Str(<<>>),
                            Str(<<>>), Num(SumQty(grp) * 10)>>),
            Line("spacer", <<Str(<<>>)>>)>>

RECURSIVE Sections(_, _)
Sections(p, cats) ==
    IF Len(cats) = 0 THEN <<>> ELSE Section(p, Head(cats)) \o Sections(p, Tail(cats))

GroupedDoc(p) == TitleBlock \o Sections(p, CategoryOrder(p))

-----------------------------------------------------------------------------
(* clean_and_reduce *)

\* line 317: every text cell of raw stripped
RawSheet(sheet) == [i \in 1..Len(sheet) |-> [k \in 1..Len(sheet[i]) |-> StripCell(sheet[i][k])]]

\* lines 375-465: the counts, the workbook and the pair returned
BuildReport(h, cols, p) ==
    [header_row_idx |-> h, columns |-> cols, prod |-> p,
     doc |-> GroupedDoc(p), ret |-> <<Len(p), RowsGt0(p)>>]

\* the early return without the to_excel call: nothing is written
ReduceWith_NoDocument(sheet, h, cols) ==
    IF MissingColumns(cols) # {}
    THEN [header_row_idx |-> h, columns |-> cols, prod |-> <<>>,
          doc |-> <<>>, ret |-> <<0, 0>>]
    ELSE BuildReport(h, cols, ProductRows(cols, DataRows(sheet, h)))

\* lines 338-373: the early return on a missing column, else the product rows
ReduceWith(sheet, h, cols) ==
    IF MissingColumns(cols) # {}
    THEN [header_row_idx |-> h, columns |-> cols, prod |-> <<>>,
          doc |-> HeaderOnlyDoc, ret |-> <<0, 0>>]
    ELSE BuildReport(h, cols, ProductRows(cols, DataRows(sheet, h)))

\* lines 329-336: the sheet read again with the header row chosen
ReduceFrom(sheet, h) == ReduceWith(sheet, h, NormalizeColumns(Columns(sheet, h)))

\* What clean_and_reduce(in_path, out_path) computes from the sheet at
\* in_path: the header row, prod, the document written and the pair returned.
clean_and_reduce(sheet) == ReduceFrom(sheet, HeaderRowIdx(RawSheet(sheet)))

-----------------------------------------------------------------------------
(* Mail: send_email and send_alert_email *)

EMAIL_TO == <<"astorialiquorgeneral@gmail.com">>
EMAIL_CC == <<>>
EMAIL_ALERT_TO == <<"krishna.ballari@astorialrs.ca">>

REASON_NO_ROWS == "No product rows found after cleaning."
REASON_ALL_ZERO == "All products have Sold QTY = 0."

\* the calls of the try block that can raise, in program order
SendSteps == <<"get_app", "create_item", "account", "attach", "send">>
\* the calls of the draft block that can raise, in program order
DraftSteps == <<"create_item", "account", "attach", "save">>

\* where the transport fails: "none", or a step of the block
SendFailures == {"none"} \cup Range(SendSteps)

\* The draft block after a failure at failAt.  When _get_outlook_app raised,
\* app was never bound and app.CreateItem(0) raises (UnboundLocalError).
DraftFailures(failAt) ==
    IF failAt = "get_app" THEN {"create_item"} ELSE {"none"} \cup Range(DraftSteps)

\* the draft block without its own except clause: the exception leaves the function
OnDraftError_Propagate == "raise"

\* What the except clause around the draft block does with its exception:
\* "log" writes the log line and falls off the end of the function.
OnDraftError == "log"

NoMail ==
    [branch |-> "none", fn |-> "none", to |-> <<>>, cc |-> <<>>, reason |-> "",
     failAt |-> "none", sent |-> FALSE, draftAttempts |-> 0, draftFailAt |-> "none",
     draftSaved |-> FALSE, errorsLogged |-> 0, returned |-> TRUE]

\* the body shared by send_email and send_alert_email: try the send; on an
\* exception log it and try once to save a draft; log a failure of that too
Transport(fn, to, cc, reason, failAt, draftFailAt) ==
    [branch |-> "none", fn |-> fn, to |-> to, cc |-> cc, reason |-> reason,
     failAt |-> failAt,
     sent |-> failAt = "none",
     draftAttempts |-> IF failAt = "none" THEN 0 ELSE 1,
     draftFailAt |-> IF failAt = "none" THEN "none" ELSE draftFailAt,
     draftSaved |-> failAt # "none" /\ draftFailAt = "none",
     errorsLogged |-> IF failAt = "none" THEN 0
                      ELSE IF draftFailAt = "none" THEN 1
                      ELSE IF OnDraftError = "log" THEN 2 ELSE 1,
     returned |-> failAt = "none" \/ draftFailAt = "none" \/ OnDraftError = "log"]

\* send_email(out_path, report_date)
send_email(failAt, draftFailAt) ==
    Transport("send_email", EMAIL_TO, EMAIL_CC, "", failAt, draftFailAt)

\* send_alert_email(reason, out_path, report_date)
send_alert_email(reason, failAt, draftFailAt) ==
    Transport("send_alert_email", EMAIL_ALERT_TO, <<>>, reason, failAt, draftFailAt)

-----------------------------------------------------------------------------
(* main: the decision *)

\* the two tests of main in the other order
DecisionBranch_ZeroQtyFirst(rows_total, rows_gt0) ==
    IF rows_gt0 = 0 THEN "alert_all_zero"
    ELSE IF rows_total = 0 THEN "alert_no_rows"
    ELSE "normal"

\* the if / elif / else of main over (rows_total, rows_gt0)
DecisionBranch(rows_total, rows_gt0) ==
    IF rows_total = 0 THEN "alert_no_rows"
    ELSE IF rows_gt0 = 0 THEN "alert_all_zero"
    ELSE "normal"

\* the alert path without its CI guard
Dispatches_Always(ci) == TRUE

\* whether a branch calls the mail function (if IS_CI: log ... else: send)
Dispatches(ci) == ~ci

\* what the chosen branch does with the transport
BranchMail(branch, ci, failAt, draftFailAt) ==
    LET m == IF ~Dispatches(ci) THEN NoMail
             ELSE CASE branch = "alert_no_rows" ->
                         send_alert_email(REASON_NO_ROWS, failAt, draftFailAt)
                    [] branch = "alert_all_zero" ->
                         send_alert_email(REASON_ALL_ZERO, failAt, draftFailAt)
                    [] OTHER -> send_email(failAt, draftFailAt)
    IN [m EXCEPT !.branch = branch]


-----------------------------------------------------------------------------
(* The page as the navigation steps meet it *)

\* candidate lists of length n the page may answer with: no candidate
\* matches, or the first lookup raises and the last candidate is visible
PageMiss(n) == [k \in 1..n |-> Locator("ok", <<>>)]
PageHit(n) == [k \in 1..n |-> IF k = n THEN Locator("ok", <<TRUE>>)
                              ELSE IF k = 1 THEN Locator("raise_count", <<>>)
                              ELSE Locator("ok", <<>>)]
PageLookups(n) == {PageMiss(n), PageHit(n)}

\* the calls on the login controls after "Logging in...", in program order
LoginOps == <<"user_click", "user_press", "user_type",
              "pass_click", "pass_press", "pass_type",
              "login_click", "login_wait">>

\* the operations of s[1..k]
Upto(s, k) == {s[i] : i \in 1..k}

\* ---- select_store ----
\* modal: "raise" (a call before the if raises), "absent", "hidden", "shown"
StoreChoices ==
    {[modal |-> m, target |-> PageMiss(2), clickOk |-> TRUE, close |-> PageMiss(2),
      waitOk |-> TRUE] : m \in {"raise", "absent", "hidden"}}
    \cup [modal : {"shown"}, target : {PageMiss(2)}, clickOk : {TRUE},
          close : PageLookups(2), waitOk : BOOLEAN]
    \cup [modal : {"shown"}, target : {PageHit(2)}, clickOk : {TRUE},
          close : PageLookups(2), waitOk : BOOLEAN]
    \cup [modal : {"shown"}, target : {PageHit(2)}, clickOk : {FALSE},
          close : {PageMiss(2)}, waitOk : {TRUE}]

\* The click() calls select_store makes, in order.  target is the handle of
\* the first visible of "text=Astoria Liquor 191222" and "text=Astoria
\* Liquor"; the handle _first_visible returns for the Close candidates is
\* not bound to a name and no call is made on it.
StoreClicks(st) ==
    LET target == FirstVisible(st.target).ret
        close == FirstVisible(st.close).ret
    IN IF st.modal = "shown" /\ target # 0
       THEN <<IF target = 1 THEN "store_full_label" ELSE "store_partial_name">>
       ELSE <<>>

\* the body of select_store's try: the page operations it attempts, and
\* whether an exception reached the except clause
select_store(st) ==
    LET shown == st.modal = "shown"
        target == FirstVisible(st.target).ret # 0
        clickRaised == shown /\ target /\ ~st.clickOk
        reachedWait == shown /\ ~clickRaised
    IN [events |-> IF shown /\ target THEN {"store_click"} ELSE {},
        caught |-> IF st.modal = "raise" \/ clickRaised \/ (reachedWait /\ ~st.waitOk)
                   THEN {"select_store"} ELSE {},
        clicks |-> StoreClicks(st)]

\* ---- click_apply ----
\* each of the six candidates: "none" (count() is 0), "ok" (clicked and
\* settled), "raise" (count, scroll, click or wait raised)
ApplyChoices ==
    {[k \in 1..6 |-> "none"],
     [k \in 1..6 |-> IF k = 1 THEN "ok" ELSE "none"],
     [k \in 1..6 |-> IF k = 1 THEN "raise" ELSE IF k = 2 THEN "ok" ELSE "none"],
     [k \in 1..6 |-> "raise"]}

click_apply(cands) ==
    LET oks == {k \in 1..Len(cands) : cands[k] = "ok"}
        stop == IF oks = {} THEN Len(cands) ELSE CHOOSE k \in oks : \A j \in oks : k <= j
        tried == {k \in 1..stop : cands[k] # "none"}
    IN [clicked |-> oks # {},
        events |-> IF tried # {} THEN {"apply_click"} ELSE {},
        caught |-> IF \E k \in tried : cands[k] = "raise" THEN {"click_apply"} ELSE {}]

\* ---- the four optional fields of set_report_filters ----
Fields == {"start_date", "end_date", "start_time", "finish_time"}

\* a field: the lookups of its _first_visible call, and whether typing works
FieldChoices ==
    {[lookup |-> PageMiss(3), typeOk |-> TRUE],
     [lookup |-> PageHit(3), typeOk |-> TRUE],
     [lookup |-> PageHit(3), typeOk |-> FALSE]}

\* the sheets the portal may hand to the run
NoFile == [saved |-> FALSE, sheet |-> <<>>]
NoSummary == [known |-> FALSE, rows_total |-> 0, rows_gt0 |-> 0]
\* select_store not called yet on a page without the modal
NoStorePage == [modal |-> "absent", target |-> PageMiss(2), clickOk |-> TRUE,
                close |-> PageMiss(2), waitOk |-> TRUE]
NoStoreCall == [page |-> NoStorePage, calls |-> 0, met |-> NoStorePage,
                clicks |-> <<>>, caught |-> FALSE]
NotCalled == [called |-> FALSE, ret |-> 0, match |-> 0, examined |-> <<>>, raised |-> FALSE]


-----------------------------------------------------------------------------
(* Sheets: the exported files the model feeds to clean_and_reduce *)

\* longest sheet of the header-position family (the scan window is 40 rows)
MaxTallRows == 42
\* most rows of a sheet built from MixRows
MaxMixRows == 2

\* header rows, written in the order of their columns
HeaderCanon == LabelCells(REQUIRED)
\* scenario A: [Category, SKU, Sold Qty, Description, UOM, Group]
HeaderScenarioA == LabelCells(<<L_Category, L_SKU, L_SoldQty, L_Description, L_UOM, L_Group>>)
\* lower case, padded, permuted
HeaderLoose ==
    <<Str(<<" ","U","O","M"," ">>), Str(<<"s","k","u">>), Str(<<"G","R","O","U","P">>), Str(<<"s","o","l","d"," ","q","t","y">>), Str(<<"D","E","S","C","R","I","P","T","I","O","N">>), Str(<<"C","a","t","e","g","o","r","y"," ">>)>>
HeaderAliases == LabelCells(<<L_SKU, L_Description, L_Category, L_Group, L_Unit, L_QtySold>>)
HeaderNoUOM == <<Str(L_SKU), Str(L_Description), Str(L_Category), Str(L_Group), Str(<<"P","r","i","c","e">>), Str(L_SoldQTY)>>
HeaderLower == <<Str(<<"s","k","u">>), Str(<<"d","e","s","c","r","i","p","t","i","o","n">>), Str(<<"c","a","t","e","g","o","r","y">>), Str(<<"g","r","o","u","p">>), Str(<<"u","o","m">>), Str(<<"s","o","l","d"," ","q","t","y">>)>>
HeaderBothQty == <<Str(L_SKU), Str(L_Description), Str(L_Category), Str(L_SoldQty), Str(L_UOM), Str(L_SoldQTY)>>
HeaderBothUnit == <<Str(L_SKU), Str(L_Description), Str(L_Category), Str(L_Unit), Str(L_UOM), Str(L_SoldQTY)>>
HeaderPadded == <<Str(<<" ","S","K","U"," ">>), Str(L_Description), Str(L_Category), Str(L_Group), Str(L_UOM), Str(<<"S","o","l","d"," ","Q","T","Y"," "," ">>)>>
HeaderNoGroup == <<Str(L_SKU), Str(L_Description), Str(L_Category), Str(<<"P","r","i","c","e">>), Str(L_UOM), Str(L_SoldQTY)>>
HeaderNoDescription == <<Str(L_SKU), Str(<<"P","r","i","c","e">>), Str(L_Category), Str(L_Group), Str(L_UOM), Str(L_SoldQTY)>>
HeaderUnnamed == <<Str(L_SKU), Str(L_Description), NaN, Str(L_Group), Str(L_UOM), Str(L_SoldQTY)>>
HeaderQtyAliasesOnly == <<Str(L_SKU), Str(L_Description), Str(L_Category), Str(L_QtySold), Str(L_UOM), Str(L_SoldQty)>>

HeaderPool ==
    {HeaderCanon, HeaderScenarioA, HeaderLoose, HeaderAliases, HeaderNoUOM, HeaderLower,
     HeaderBothQty, HeaderBothUnit, HeaderPadded, HeaderNoGroup, HeaderNoDescription,
     HeaderUnnamed, HeaderQtyAliasesOnly}

\* a data row in the column order of HeaderCanon
Row(sku, desc, cat, qty) == <<sku, desc, cat, Str(<<"G","1">>), Str(<<"E","A">>), qty>>

BlankRow == <<NaN, NaN, NaN, NaN, NaN, NaN>>
\* five of the six labels: Category is missing
NearMissRow == <<Str(L_SKU), Str(L_Description), NaN, Str(L_Group), Str(L_UOM), Str(L_SoldQTY)>>
BannerRow == <<Str(<<"S","a","l","e","s"," ","-"," ","R","e","p","o","r","t">>), NaN, NaN, NaN, NaN, NaN>>

\* scenario A of the tests: header at row 3, a "Total Beer" line, one product
ScenarioA ==
    <<BannerRow, BlankRow, BlankRow, HeaderScenarioA,
      <<Str(<<"S","p","i","r","i","t","s">>), Num(10010), Str(<<"$","1","2",".","0","0">>), Str(<<"V","o","d","k","a"," ","7","5","0","m","l">>), Str(<<"E","A">>), Str(<<"G","1">>)>>,
      <<NaN, Str(<<"T","o","t","a","l"," ","B","e","e","r">>), Str(<<"$","1","2",".","0","0">>), NaN, NaN, NaN>>>>

SkuPool ==
    {NaN, Str(<<>>), Str(<<" ">>), Str(<<"n","a","n">>), Str(<<" ","n","a","n"," ">>), Str(<<"T","o","t","a","l"," ","B","e","e","r">>), Str(L_Total), Str(<<" ","T","o","t","a","l"," ","x">>),
     Str(<<"S","u","b","t","o","t","a","l">>), Str(<<"t","o","t","a","l">>), Str(<<"B","e","e","r"," ","-"," ","A","l","e">>), Str(<<"b","e","e","r"," ","-"," ","a","l","e">>), Str(<<"B","-","1">>), Str(<<"A","1","2">>), Num(10010), Num(15),
     Str(<<" "," ","W","i","n","e"," ","-"," ","R","e","d"," ">>), Str(<<"A"," ","-">>)}
\* (read_excel hands an empty text cell over as NaN, so no empty text here)
DescPool == {NaN, Str(<<"V","o","d","k","a">>), Str(<<" ">>)}
CatPool == {NaN, Str(<<>>), Str(<<" "," ">>), Str(<<"S","p","i","r","i","t","s">>), Str(<<" ","B","e","e","r"," ">>), Num(50)}
QtyPool == {NaN, Num(0), Num(30), Num(25), Num(-20), Num(-25), Str(<<"$","1","2",".","0","0">>), Str(<<"$","1",",","2","3","4">>), Str(<<"a","b","c">>),
            Str(<<>>), Str(<<"-","5">>), Str(<<"1","2",".","7">>), Str(<<"$","-","3",".","5","0">>), Str(<<" ","4"," ">>), Str(<<"(","5",")">>), Str(<<"1",".">>), Str(<<".","5">>), Str(<<"$">>)}

\* one data row under the canonical header, every combination of the pools
OneRowSheets ==
    {<<HeaderCanon, Row(sku, desc, cat, qty)>> :
        sku \in SkuPool, desc \in DescPool, cat \in CatPool, qty \in {Num(0), Str(<<"$","1","2",".","0","0">>)}}

\* one product row whose Sold QTY cell runs over QtyPool
QtySheets == {<<HeaderCanon, Row(Str(<<"A","1","2">>), Str(<<"V","o","d","k","a">>), Str(<<"S","p","i","r","i","t","s">>), qty)>> : qty \in QtyPool}

MixRows ==
    {Row(Str(<<"A","1","2">>), Str(<<"V","o","d","k","a">>), Str(<<"S","p","i","r","i","t","s">>), Num(30)),
     Row(Str(<<"B","7">>), Str(<<"A","l","e">>), Str(<<"B","e","e","r">>), Num(0)),
     Row(Str(<<"T","o","t","a","l"," ","B","e","e","r">>), NaN, NaN, Num(30)),
     Row(Str(<<"B","e","e","r"," ","-"," ","A","l","e">>), NaN, Str(<<"B","e","e","r">>), NaN),
     Row(Str(<<"C","3">>), Str(<<"G","i","n">>), Str(<<" ","S","p","i","r","i","t","s">>), Str(<<"$","1","2",".","0","0">>)),
     Row(Str(<<"D","4">>), Str(<<"R","u","m">>), NaN, Num(10))}

MixSheets == {<<HeaderCanon>> \o rows : rows \in SeqsUpTo(MixRows, MaxMixRows)}

\* rt product rows of which the first gt sold something
SummarySheet(rt, gt) ==
    <<HeaderCanon>> \o [k \in 1..rt |->
        Row(Num(10000 + 10 * k), Str(<<"V","o","d","k","a">>), Str(<<"S","p","i","r","i","t","s">>), IF k <= gt THEN Num(10 * k) ELSE Num(0))]

SummarySheets ==
    {SummarySheet(q[1], q[2]) :
        q \in {r \in (0..MaxSummary) \X (0..MaxSummary) : r[2] <= r[1]}}

\* the categories of the grouping family
GroupCats == <<Str(<<"B">>), Str(<<"A">>), Str(<<"C">>)>>

\* one product row per entry of cats: row k has SKU 1000 + k and category
\* cats[k], and sold k units when k is odd, none when k is even
GroupSheet(cats) ==
    <<HeaderCanon>> \o [k \in 1..Len(cats) |->
        Row(Num(10000 + 10 * k), Str(<<"V","o","d","k","a">>), cats[k],
            IF k % 2 = 1 THEN Num(10 * k) ELSE Num(0))]

\* every order of the three categories over up to MaxGroupRows rows
GroupSheets == {GroupSheet(cats) : cats \in SeqsUpTo(Range(GroupCats), MaxGroupRows)}

\* each header of the pool over two data rows, at row 0 or below two banner rows
HeaderSheets ==
    UNION {{<<hd, Row(Str(<<"A","1","2">>), Str(<<"V","o","d","k","a">>), Str(<<"S","p","i","r","i","t","s">>), Num(30)), Row(Str(<<"B","7">>), Str(<<"A","l","e">>), Str(<<"B","e","e","r">>), Num(0))>>,
            <<BannerRow, BlankRow, hd, Row(Str(<<"A","1","2">>), Str(<<"V","o","d","k","a">>), Str(<<"S","p","i","r","i","t","s">>), Num(30)),
              Row(Str(<<"B","7">>), Str(<<"A","l","e">>), Str(<<"B","e","e","r">>), Num(0))>>} : hd \in HeaderPool}

\* 0-based rows at which the header-position family places a header row
TallHeaderPositions == {0, 1, ScanWindow - 2, ScanWindow - 1, ScanWindow, ScanWindow + 1}
TallLengths == {1, 2, ScanWindow - 1, ScanWindow, ScanWindow + 1, MaxTallRows}

\* n rows, those at `at` being hd and every other row being filler
TallSheet(n, at, hd, filler) == [i \in 1..n |-> IF (i - 1) \in at THEN hd ELSE filler]

TallSheets ==
    {TallSheet(n, at, hd, filler) :
        n \in TallLengths,
        at \in {a \in SUBSET TallHeaderPositions : Cardinality(a) <= 2},
        hd \in {HeaderCanon, HeaderLoose},
        filler \in {BlankRow, NearMissRow}}

EmptySheet == <<>>

CleanSheets ==
    OneRowSheets \cup QtySheets \cup MixSheets \cup SummarySheets \cup HeaderSheets
    \cup TallSheets \cup GroupSheets \cup {EmptySheet, ScenarioA}

\* the sheets the portal hands to a whole run
RunSheets == {ScenarioA, <<HeaderNoUOM, Row(Str(<<"A","1","2">>), Str(<<"V","o","d","k","a">>), Str(<<"S","p","i","r","i","t","s">>), Num(30))>>,
              SummarySheet(2, 0), SummarySheet(2, 1), EmptySheet}


-----------------------------------------------------------------------------
(* The navigation functions *)

Returned(ev, ca) == [events |-> ev, caught |-> ca, raised |-> ""]
Raised(ev, ca, what) == [events |-> ev, caught |-> ca, raised |-> what]

\* ensure_logged_in with the credentials tested before the login form is looked for
ensure_logged_in_CredsFirst(u, pw, gotoOk, lu, lp, lb, failAt) ==
    LET form == FirstVisible(lu).ret # 0 /\ FirstVisible(lp).ret # 0 /\ FirstVisible(lb).ret # 0
    IN IF ~gotoOk THEN Raised({"goto_base"}, {}, "goto_base_failed")
       ELSE IF ~Truthy(u) \/ ~Truthy(pw)
       THEN Raised({"goto_base"} \cup (IF form THEN {"form_detected"} ELSE {}), {}, "creds_missing")
       ELSE IF ~form THEN Returned({"goto_base"}, {})
       ELSE IF failAt = 0
       THEN Returned({"goto_base", "form_detected"} \cup Upto(LoginOps, Len(LoginOps)), {})
       ELSE Raised({"goto_base", "form_detected"} \cup Upto(LoginOps, failAt), {}, "login_ui_failed")

\* ensure_logged_in(page, username, password): gotoOk = page.goto returned;
\* lu, lp, lb = the candidates of the three _first_visible calls; failAt = the
\* operation of LoginOps that raises (0 = none)
ensure_logged_in(u, pw, gotoOk, lu, lp, lb, failAt) ==
    LET user_loc == FirstVisible(lu).ret # 0
        pass_loc == FirstVisible(lp).ret # 0
        login_btn == FirstVisible(lb).ret # 0
    IN IF ~gotoOk THEN Raised({"goto_base"}, {}, "goto_base_failed")
       ELSE IF user_loc /\ pass_loc /\ login_btn
       THEN IF ~Truthy(u) \/ ~Truthy(pw)
            THEN Raised({"goto_base", "form_detected"}, {}, "creds_missing")
            ELSE IF failAt = 0
                 THEN Returned({"goto_base", "form_detected"} \cup Upto(LoginOps, Len(LoginOps)), {})
                 ELSE Raised({"goto_base", "form_detected"} \cup Upto(LoginOps, failAt), {},
                             "login_ui_failed")
       ELSE Returned({"goto_base"}, {})

\* clear_and_type on every field that resolved, all exceptions caught inside
FillFields(fc) ==
    LET found == {f \in Fields : FirstVisible(fc[f].lookup).ret # 0}
    IN [events |-> IF found # {} THEN {"field_type"} ELSE {},
        caught |-> IF \E f \in found : ~fc[f].typeOk THEN {"clear_and_type"} ELSE {}]

\* set_report_filters(page, rep_date)
set_report_filters(gotoOk, st, fc, ap, enterOk) ==
    LET store == select_store(st)
        fill == FillFields(fc)
        apply == click_apply(ap)
        enter == IF apply.clicked THEN Returned({}, {})
                 ELSE Returned({"enter_key"}, IF enterOk THEN {} ELSE {"enter_key"})
    IN IF ~gotoOk THEN Raised({"goto_report"}, {}, "goto_report_failed")
       ELSE Returned({"goto_report"} \cup store.events \cup fill.events \cup apply.events
                         \cup enter.events,
                     store.caught \cup fill.caught \cup apply.caught \cup enter.caught)

\* export_to_excel(page): roleOk / textOk = the click on the role locator /
\* on the text locator worked; dl = "ok" or "timeout" of expect_download
export_to_excel(roleOk, textOk, dl) ==
    IF ~roleOk /\ ~textOk THEN Raised({"export_click"}, {}, "export_click_failed")
    ELSE IF dl = "timeout" THEN Raised({"export_click"}, {}, "download_timeout")
    ELSE Returned({"export_click", "download_saved"}, {})

-----------------------------------------------------------------------------
(* main *)

\* main with clean_and_reduce called before export_to_excel
MainOrder_CleanBeforeExport ==
    <<"login", "store", "filters", "apply", "clean", "export", "decide", "done">>

\* the calls of main in program order, and where each leaves the navigation
MainOrder == <<"login", "store", "filters", "apply", "export", "clean", "decide", "done">>

After(call) == MainOrder[(CHOOSE i \in 1..Len(MainOrder) : MainOrder[i] = call) + 1]

NavStates == <<"Unauthenticated", "Authenticated", "StoreSelected", "FiltersApplied", "Exported">>

NavAfter(call) ==
    CASE call = "login" -> "Authenticated"
      [] call = "store" -> "StoreSelected"
      [] call = "filters" -> "FiltersApplied"
      [] call = "export" -> "Exported"
      [] OTHER -> nav

\* a navigation call of main came back with result r
Step(call, r) ==
    /\ events' = events \cup r.events
    /\ caught' = caught \cup r.caught
    /\ IF r.raised = ""
       THEN pc' = After(call) /\ nav' = NavAfter(call) /\ abortCause' = abortCause
       ELSE pc' = "aborted" /\ nav' = nav /\ abortCause' = r.raised
    /\ UNCHANGED <<username, password, IS_CI>>

EnsureLoggedIn ==
    /\ pc = "login"
    /\ \E gotoOk \in BOOLEAN, lu \in PageLookups(4), lp \in PageLookups(5),
          lb \in PageLookups(3), failAt \in 0..Len(LoginOps) :
          Step("login", ensure_logged_in(username, password, gotoOk, lu, lp, lb, failAt))
    /\ UNCHANGED <<cleanVars, mail, fvVars, storeCall>>

SelectStore ==
    /\ pc = "store"
    /\ \E st \in StoreChoices : Step("store", select_store(st) @@ [raised |-> ""])
    /\ UNCHANGED <<cleanVars, mail, fvVars, storeCall>>

SetReportFilters ==
    /\ pc = "filters"
    /\ \/ Step("filters", set_report_filters(FALSE, CHOOSE st \in StoreChoices : TRUE,
                                               [f \in Fields |-> CHOOSE c \in FieldChoices : TRUE],
                                               CHOOSE ap \in ApplyChoices : TRUE, TRUE))
       \/ \E st \in StoreChoices, fc \in [Fields -> FieldChoices], ap \in ApplyChoices :
             \E enterOk \in (IF click_apply(ap).clicked THEN {TRUE} ELSE BOOLEAN) :
                Step("filters", set_report_filters(TRUE, st, fc, ap, enterOk))
    /\ UNCHANGED <<cleanVars, mail, fvVars, storeCall>>

\* main: "extra safety: Apply again before exporting"
ClickApplyAgain ==
    /\ pc = "apply"
    /\ \E ap \in ApplyChoices :
          LET r == click_apply(ap) IN Step("apply", Returned(r.events, r.caught))
    /\ UNCHANGED <<cleanVars, mail, fvVars, storeCall>>

ExportToExcel ==
    /\ pc = "export"
    /\ \E roleOk \in BOOLEAN, textOk \in BOOLEAN, dl \in {"ok", "timeout"}, sheet \in RunSheets :
          LET r == export_to_excel(roleOk, textOk, dl)
          IN /\ Step("export", r)
             /\ downloaded' = IF r.raised = "" THEN [saved |-> TRUE, sheet |-> sheet]
                              ELSE downloaded
    /\ UNCHANGED <<header_row_idx, prod, outDoc, summary, mail, fvVars, storeCall>>

CleanAndReduce ==
    /\ pc = "clean"
    /\ \E r \in {clean_and_reduce(downloaded.sheet)} :
          /\ header_row_idx' = r.header_row_idx
          /\ prod' = r.prod
          /\ outDoc' = r.doc
          /\ summary' = [known |-> TRUE, rows_total |-> r.ret[1], rows_gt0 |-> r.ret[2]]
    /\ pc' = After("clean")
    /\ UNCHANGED <<nav, username, password, IS_CI, events, caught, abortCause,
                   downloaded, mail, fvVars, storeCall>>

\* the decision of main, the mail function it calls and the last log line
Decide ==
    /\ pc = "decide"
    /\ \E failAt \in SendFailures :
         \E draftFailAt \in DraftFailures(failAt) :
            LET m == BranchMail(DecisionBranch(summary.rows_total, summary.rows_gt0),
                                IS_CI, failAt, draftFailAt)
            IN /\ mail' = m
               /\ IF m.returned
                  THEN pc' = After("decide") /\ abortCause' = abortCause
                       /\ events' = events \cup {"finished"}
                  ELSE pc' = "aborted" /\ abortCause' = "mail_error" /\ events' = events
    /\ UNCHANGED <<nav, username, password, IS_CI, caught, cleanVars, fvVars, storeCall>>

\* (username, password) as the environment may set them
CredentialPairs ==
    {<<NoneVal, NoneVal>>, <<"", "configured">>, <<"configured", NoneVal>>,
     <<"configured", "">>, <<"configured", "configured">>}

Init ==
    /\ pc = "login"
    /\ nav = "Unauthenticated"
    /\ \E cred \in CredentialPairs : username = cred[1] /\ password = cred[2]
    /\ IS_CI \in BOOLEAN
    /\ events = {}
    /\ caught = {}
    /\ abortCause = ""
    /\ downloaded = NoFile
    /\ header_row_idx = -1
    /\ prod = <<>>
    /\ outDoc = <<>>
    /\ summary = NoSummary
    /\ mail = NoMail
    /\ locators = <<>>
    /\ fv = NotCalled
    /\ storeCall = NoStoreCall

Next ==
    \/ EnsureLoggedIn
    \/ SelectStore
    \/ SetReportFilters
    \/ ClickApplyAgain
    \/ ExportToExcel
    \/ CleanAndReduce
    \/ Decide

Spec == Init /\ [][Next]_vars

-----------------------------------------------------------------------------
(* clean_and_reduce and the decision over the sheet families *)

\* a run that reached the call of clean_and_reduce without a login form
InitClean ==
    /\ pc = "clean"
    /\ nav = "Exported"
    /\ username = "configured"
    /\ password = "configured"
    /\ IS_CI \in BOOLEAN
    /\ events = {"goto_base", "goto_report", "export_click", "download_saved"}
    /\ caught = {}
    /\ abortCause = ""
    /\ downloaded \in {[saved |-> TRUE, sheet |-> sh] : sh \in CleanSheets}
    /\ header_row_idx = -1
    /\ prod = <<>>
    /\ outDoc = <<>>
    /\ summary = NoSummary
    /\ mail = NoMail
    /\ locators = <<>>
    /\ fv = NotCalled
    /\ storeCall = NoStoreCall

NextClean ==
    \/ CleanAndReduce
    \/ Decide

SpecClean == InitClean /\ [][NextClean]_vars

-----------------------------------------------------------------------------
(* _first_visible over every candidate list *)

InitResolve ==
    /\ pc = "idle"
    /\ nav = "Unauthenticated"
    /\ username = NoneVal
    /\ password = NoneVal
    /\ IS_CI = FALSE
    /\ events = {}
    /\ caught = {}
    /\ abortCause = ""
    /\ downloaded = NoFile
    /\ header_row_idx = -1
    /\ prod = <<>>
    /\ outDoc = <<>>
    /\ summary = NoSummary
    /\ mail = NoMail
    /\ locators \in SeqsUpTo(LocatorKinds, MaxLocators)
    /\ fv = NotCalled
    /\ storeCall = NoStoreCall

CallFirstVisible ==
    /\ ~fv.called
    /\ fv' = [called |-> TRUE] @@ FirstVisible(locators)
    /\ UNCHANGED <<runVars, cleanVars, mail, locators, storeCall>>

NextResolve == CallFirstVisible

SpecResolve == InitResolve /\ [][NextResolve]_vars

-----------------------------------------------------------------------------
(* select_store over the pages it may meet *)

\* the two target candidates and the two Close candidates as the page answers
StoreTargets == [1..2 -> LocatorKinds]
StoreCloses == [1..2 -> {Locator("ok", <<>>), Locator("ok", <<TRUE>>), Locator("raise_count", <<>>)}]

StorePages ==
    [modal : {"raise", "absent", "hidden", "shown"}, target : StoreTargets,
     clickOk : BOOLEAN, close : StoreCloses, waitOk : BOOLEAN]

InitStore ==
    /\ pc = "store_call"
    /\ nav = "Authenticated"
    /\ username = NoneVal
    /\ password = NoneVal
    /\ IS_CI = FALSE
    /\ events = {}
    /\ caught = {}
    /\ abortCause = ""
    /\ downloaded = NoFile
    /\ header_row_idx = -1
    /\ prod = <<>>
    /\ outDoc = <<>>
    /\ summary = NoSummary
    /\ mail = NoMail
    /\ locators = <<>>
    /\ fv = NotCalled
    /\ \E st \in StorePages : storeCall = [NoStoreCall EXCEPT !.page = st]

\* one call select_store(page); a click on the store may or may not make the
\* portal take the modal away
CallSelectStore ==
    /\ pc = "store_call"
    /\ storeCall.calls < MaxStoreCalls
    /\ \E r \in {select_store(storeCall.page)} :
          \E after \in (IF r.clicks # <<>> THEN {"absent", "shown"}
                        ELSE {storeCall.page.modal}) :
             storeCall' = [page |-> [storeCall.page EXCEPT !.modal = after],
                           calls |-> storeCall.calls + 1,
                           met |-> storeCall.page,
                           clicks |-> r.clicks,
                           caught |-> r.caught # {}]
    /\ UNCHANGED <<runVars, cleanVars, mail, fvVars>>

NextStore == CallSelectStore

SpecStore == InitStore /\ [][NextStore]_vars


-----------------------------------------------------------------------------
(* Properties *)

NavRank(n) == CHOOSE i \in 1..Len(NavStates) : NavStates[i] = n

LoginTouches == Range(LoginOps)
AfterLogin == {"store_click", "goto_report", "field_type", "apply_click", "enter_key",
               "export_click", "download_saved", "finished"}

\* C1: once main has decided, the branch is the one the summary selects:
\* rows_total = 0 gives the alert with the "no product rows" reason,
\* rows_total > 0 with rows_gt0 = 0 the alert with the "all zero" reason, any
\* other summary the team mail; an alert goes to the alert recipients only and
\* the team mail to the team recipients only.
C1_DecisionOutcomes ==
    (summary.known /\ mail.branch # "none") =>
        LET rt == summary.rows_total
            gt == summary.rows_gt0
        IN /\ 0 <= gt /\ gt <= rt
           /\ rt = 0 => mail.branch = "alert_no_rows"
           /\ (rt > 0 /\ gt = 0) => mail.branch = "alert_all_zero"
           /\ (rt > 0 /\ gt > 0) => mail.branch = "normal"
           /\ mail.fn # "none" =>
                /\ mail.branch = "alert_no_rows" =>
                      /\ mail.fn = "send_alert_email"
                      /\ mail.reason = "No product rows found after cleaning."
                      /\ mail.to = EMAIL_ALERT_TO /\ mail.cc = <<>>
                /\ mail.branch = "alert_all_zero" =>
                      /\ mail.fn = "send_alert_email"
                      /\ mail.reason = "All products have Sold QTY = 0."
                      /\ mail.to = EMAIL_ALERT_TO /\ mail.cc = <<>>
                /\ mail.branch = "normal" =>
                      /\ mail.fn = "send_email"
                      /\ mail.to = EMAIL_TO /\ mail.cc = EMAIL_CC
                      /\ Range(mail.to) \cap Range(EMAIL_ALERT_TO) = {}

\* the summary (5, 3) sent as the team mail
C1_Witness ==
    /\ summary.known /\ summary.rows_total = 5 /\ summary.rows_gt0 = 3
    /\ mail.branch = "normal" /\ mail.fn = "send_email" /\ mail.sent

\* C2, the state part: what has happened so far is a prefix of login, store
\* selection, filters, export, transformation, notification.
C2_StagePrefix ==
    /\ pc = "login" => nav = "Unauthenticated"
    /\ pc = "store" => nav = "Authenticated"
    /\ pc = "filters" => nav = "StoreSelected"
    /\ pc \in {"apply", "export"} => nav = "FiltersApplied"
    /\ pc \in {"clean", "decide", "done"} => nav = "Exported"
    /\ (LoginTouches \cap events # {}) => "goto_base" \in events
    /\ "store_click" \in events => NavRank(nav) >= NavRank("Authenticated")
    /\ ({"goto_report", "field_type", "apply_click", "enter_key"} \cap events # {}) =>
           NavRank(nav) >= NavRank("StoreSelected")
    /\ "export_click" \in events => NavRank(nav) >= NavRank("FiltersApplied")
    /\ downloaded.saved <=> "download_saved" \in events
    /\ downloaded.saved => nav = "Exported"
    /\ summary.known => downloaded.saved
    /\ (outDoc # <<>> \/ prod # <<>> \/ header_row_idx # -1) => summary.known
    /\ mail.branch # "none" => summary.known
    /\ abortCause = "download_timeout" =>
           /\ pc = "aborted"
           /\ ~downloaded.saved /\ ~summary.known /\ outDoc = <<>>
           /\ mail = NoMail /\ "finished" \notin events

\* C2: the stages happen in the order login, store selection, filters,
\* export, transformation, notification; the navigation state moves one step
\* forward at a time; clean_and_reduce runs only on a saved download; no mail
\* is attempted before the summary exists; after a download timeout neither
\* the transformation nor a notification happens.
C2_StrictOrder ==
    /\ []C2_StagePrefix
    /\ [][nav' # nav => NavRank(nav') = NavRank(nav) + 1]_vars

\* the export step timed out after the filters had been applied
C2_Witness ==
    /\ abortCause = "download_timeout"
    /\ nav = "FiltersApplied"
    /\ {"goto_base", "goto_report", "export_click"} \subseteq events

\* C3: _first_visible returns the first match of the lowest candidate that
\* has a match whose first match is visible, None when there is none; it tries
\* the candidates in list order, each once, none after the one it returns; a
\* lookup that raises counts as no match and no exception leaves the call.
C3_FirstVisible ==
    fv.called =>
        LET qualifies == {i \in 1..Len(locators) :
                             /\ locators[i].kind = "ok"
                             /\ Len(locators[i].matches) >= 1
                             /\ locators[i].matches[1]}
            last == IF qualifies = {} THEN Len(locators)
                    ELSE CHOOSE i \in qualifies : \A j \in qualifies : i <= j
        IN /\ ~fv.raised
           /\ qualifies = {} => fv.ret = 0
           /\ qualifies # {} => fv.ret = last /\ fv.match = 1
           /\ fv.examined = [k \in 1..last |-> k]

\* a lookup raised, a hidden first match was passed over, the third candidate won
C3_Witness ==
    /\ fv.called /\ fv.ret = 3
    /\ locators[1].kind = "raise_count"
    /\ locators[2] = Locator("ok", <<FALSE, TRUE>>)

\* C4: the run aborts for missing credentials exactly when the three login
\* controls resolved and a credential is missing, and then nothing was
\* clicked, typed, submitted, selected, exported or mailed; when a control
\* does not resolve the login step returns without touching a control.
C4_MissingCredentials ==
    LET missing == ~Truthy(username) \/ ~Truthy(password)
        form == "form_detected" \in events
        loaded == pc # "login" /\ abortCause # "goto_base_failed"
    IN /\ abortCause = "creds_missing" <=> (loaded /\ form /\ missing)
       /\ abortCause = "creds_missing" =>
             /\ pc = "aborted"
             /\ events \cap (LoginTouches \cup AfterLogin) = {}
             /\ ~downloaded.saved /\ ~summary.known /\ mail = NoMail
       /\ (loaded /\ ~form) =>
             /\ abortCause \notin {"creds_missing", "login_ui_failed"}
             /\ events \cap LoginTouches = {}

\* a login form was found and the password is not configured
C4_Witness ==
    /\ abortCause = "creds_missing"
    /\ "form_detected" \in events
    /\ Truthy(username) /\ ~Truthy(password)


\* C5: no exception of the login, store-selection or filter steps other than
\* the missing credentials ends the run: a run is aborted only by missing
\* credentials at a detected login form or by the download timeout.
C5_GracefulDegradation ==
    abortCause \in {"", "creds_missing", "download_timeout"}

\* C6: when the mail transport fails in send_email or send_alert_email, the
\* error is logged, one draft save is attempted, a failure of that is logged
\* too, and main reaches its "Finished run" line.
C6_TransportFailure ==
    /\ abortCause # "mail_error"
    /\ (mail.fn # "none" /\ mail.failAt # "none") =>
          /\ mail.returned /\ ~mail.sent
          /\ pc = "done" /\ abortCause = "" /\ "finished" \in events
          /\ mail.draftAttempts = 1
          /\ mail.errorsLogged = (IF mail.draftSaved THEN 1 ELSE 2)
    /\ (mail.fn # "none" /\ mail.failAt = "none") =>
          mail.sent /\ mail.draftAttempts = 0 /\ mail.errorsLogged = 0

\* Outlook could not be obtained for the alert and the draft could not be made
C6_Witness ==
    /\ mail.fn = "send_alert_email"
    /\ mail.failAt = "get_app" /\ mail.draftFailAt = "create_item" /\ ~mail.draftSaved
    /\ pc = "done" /\ "finished" \in events

\* clean_and_reduce has just returned
JustCleaned == pc = "decide"

\* C7: when one of SKU, Description, Category, UOM, Sold QTY is missing from
\* the columns after the aliases Sold Qty, Qty Sold and Unit have been renamed
\* (each only where the canonical name is absent), clean_and_reduce writes the
\* header-only document and returns (0, 0), and main takes the alert branch
\* with the "no product rows" reason.
C7_MissingColumns ==
    summary.known =>
        LET names == Range(Columns(downloaded.sheet, header_row_idx))
            hasUOM == L_UOM \in names \/ L_Unit \in names
            hasQty == L_SoldQTY \in names \/ L_SoldQty \in names \/ L_QtySold \in names
            complete == /\ L_SKU \in names /\ L_Description \in names
                        /\ L_Category \in names /\ hasUOM /\ hasQty
        IN ~complete =>
             /\ outDoc = <<[kind |-> "header",
                            cells |-> <<Str(L_SKU), Str(L_Description), Str(L_Category),
                                        Str(L_UOM), Str(L_SoldQTY)>>]>>
             /\ summary.rows_total = 0 /\ summary.rows_gt0 = 0
             /\ abortCause = ""
             /\ mail.branch # "none" => mail.branch = "alert_no_rows"
             /\ mail.fn # "none" =>
                   /\ mail.fn = "send_alert_email"
                   /\ mail.reason = "No product rows found after cleaning."

\* a sheet without a UOM column, alerted as "no product rows"
C7_Witness ==
    /\ downloaded.saved /\ Len(downloaded.sheet) = 3 /\ downloaded.sheet[1] = HeaderNoUOM
    /\ Len(outDoc) = 1 /\ outDoc[1].kind = "header"
    /\ summary.known /\ summary.rows_total = 0
    /\ mail.fn = "send_alert_email" /\ mail.sent

\* C8: IS_CI changes only whether a mail is dispatched: the document, the
\* summary and the branch are those the sheet determines under either value
\* of the flag; with the flag set no send, alert or draft save is attempted,
\* with it clear exactly the mail function of the branch is called.
C8_RunModeFlag ==
    /\ JustCleaned =>
          \A r \in {clean_and_reduce(downloaded.sheet)} :
             /\ outDoc = r.doc /\ prod = r.prod
             /\ header_row_idx = r.header_row_idx
             /\ summary = [known |-> TRUE, rows_total |-> r.ret[1], rows_gt0 |-> r.ret[2]]
    /\ mail.branch # "none" =>
          mail.branch = (IF summary.rows_total = 0 THEN "alert_no_rows"
                         ELSE IF summary.rows_gt0 = 0 THEN "alert_all_zero"
                         ELSE "normal")
    /\ IS_CI =>
          /\ mail.fn = "none" /\ ~mail.sent
          /\ mail.draftAttempts = 0 /\ ~mail.draftSaved
    /\ (~IS_CI /\ pc = "done") =>
          mail.fn = (IF mail.branch = "normal" THEN "send_email" ELSE "send_alert_email")

\* a CI run over a sheet whose products all sold nothing ends without a mail
C8_Witness ==
    /\ IS_CI /\ pc = "done"
    /\ mail.branch = "alert_all_zero" /\ mail.fn = "none"
    /\ summary.rows_total > 0 /\ Len(outDoc) > 5

\* C9: header detection returns the smallest row index below
\* min(40, number of rows) whose cells, trimmed and compared without regard to
\* case, include SKU, Description, Category, Group, UOM and Sold QTY; 0 when
\* no such row exists within the first 40.
C9_HeaderDetection ==
    JustCleaned =>
        LET sh == downloaded.sheet
            labels == {L_SKU, L_Description, L_Category, L_Group, L_UOM, L_SoldQTY}
            covers(row) == \A lab \in labels :
                              \E k \in 1..Len(row) :
                                 row[k].t = "str" /\ Lower(Strip(row[k].s)) = Lower(lab)
            hits == {h \in 0..(Min(40, Len(sh)) - 1) : covers(sh[h + 1])}
        IN header_row_idx = (IF hits = {} THEN 0
                             ELSE CHOOSE h \in hits : \A g \in hits : h <= g)

\* the only header row sits at index 40, outside the window, and row 0 is used
C9_Witness ==
    /\ JustCleaned /\ header_row_idx = 0
    /\ Len(downloaded.sheet) > 40
    /\ downloaded.sheet[41] = HeaderLoose
    /\ downloaded.sheet[1] = NearMissRow

\* C10: prod holds exactly the rows of the sheet, in order and once each,
\* for which none of these holds: the SKU is blank or "nan"; the SKU text
\* (surrounding whitespace removed) starts with "Total"; the SKU text starts
\* with a capital letter and contains " - " while the Description cell is
\* empty; the Category is null or empty after trimming.  Every row of prod
\* has a non-empty Category.
C10_ProductSet ==
    (JustCleaned /\ Len(outDoc) > 1) =>
        LET cols == NormalizeColumns(Columns(downloaded.sheet, header_row_idx))
            rows == DataRows(downloaded.sheet, header_row_idx)
            txt(v) == Strip(v.s)
            blank(v) == v.t = "nan" \/ (v.t = "str" /\ txt(v) \in {<<>>, <<"n", "a", "n">>})
            total(v) == v.t = "str" /\ StartsWith(txt(v), <<"T", "o", "t", "a", "l">>)
            section(v) == /\ v.t = "str" /\ Len(txt(v)) >= 1 /\ IsUpper(txt(v)[1])
                          /\ \E i \in 1..Len(txt(v)) : OccursAt(txt(v), <<" ", "-", " ">>, i)
            noCategory(v) == v.t = "nan" \/ (v.t = "str" /\ txt(v) = <<>>)
            excluded(row) ==
                \/ blank(row[ColIdx(cols, L_SKU)])
                \/ total(row[ColIdx(cols, L_SKU)])
                \/ (section(row[ColIdx(cols, L_SKU)]) /\ row[ColIdx(cols, L_Description)].t = "nan")
                \/ noCategory(row[ColIdx(cols, L_Category)])
            kept == {i \in 1..Len(rows) : ~excluded(rows[i])}
        IN /\ {prod[k].idx : k \in 1..Len(prod)} = {i - 1 : i \in kept}
           /\ \A k \in 1..Len(prod) : \A l \in (k + 1)..Len(prod) : prod[k].idx < prod[l].idx
           /\ summary.rows_total = Cardinality(kept)
           /\ \A k \in 1..Len(prod) : prod[k].Category # <<>>

\* a row with a section-header-shaped SKU and a Description is a product row
C10_Witness ==
    /\ JustCleaned /\ Len(prod) = 1
    /\ prod[1].SKU = Str(<<"B","e","e","r"," ","-"," ","A","l","e">>)
    /\ prod[1].Description = Str(<<"V","o","d","k","a">>)

\* the Sold QTY source cell of the row of prod at position k
QtySource(k) ==
    DataRows(downloaded.sheet, header_row_idx)[prod[k].idx + 1]
        [ColIdx(NormalizeColumns(Columns(downloaded.sheet, header_row_idx)), L_SoldQTY)]

\* C11: after coercion no Sold QTY is negative, whatever the source cell:
\* not in a row of prod, not in a data line of the document, not in a
\* total line.
C11_SoldQtyNonNegative ==
    JustCleaned =>
        /\ \A k \in 1..Len(prod) : prod[k].SoldQTY >= 0
        /\ \A l \in 1..Len(outDoc) :
              outDoc[l].kind \in {"data", "total"} => outDoc[l].cells[5].n >= 0

\* the values the coercion gives where the source cell is not negative: an
\* integer n gives n, "$1,234" gives 1234, text that does not parse and the
\* empty cell give 0
C11_CoercionValues ==
    (JustCleaned /\ Len(outDoc) > 1) =>
        \A k \in 1..Len(prod) :
            LET x == QtySource(k)
            IN /\ (x.t = "num" /\ x.n % 10 = 0) => prod[k].SoldQTY * 10 = x.n
               /\ x = Str(<<"$","1",",","2","3","4">>) => prod[k].SoldQTY = 1234
               /\ x \in {NaN, Str(<<"a","b","c">>), Str(<<>>), Str(<<"(","5",")">>), Str(<<"$">>)}
                     => prod[k].SoldQTY = 0

RECURSIVE QtyTotal(_)
\* the sum of the Sold QTY values of the rows g
QtyTotal(g) == IF Len(g) = 0 THEN 0 ELSE g[1].SoldQTY + QtyTotal(Tail(g))

\* C12: the category lines of the document are the distinct categories of
\* prod in order of first appearance; the lines after a category line are the
\* column header, then the rows of prod of that category, each once and in
\* the order of prod, then a total line carrying the sum of their Sold QTY;
\* the data lines number rows_total and those with a positive Sold QTY number
\* rows_with_qty_gt0.
C12_Grouping ==
    (JustCleaned /\ Len(outDoc) > 1) =>
        LET catAt == {l \in 1..Len(outDoc) : outDoc[l].kind = "category"}
            dataAt == {l \in 1..Len(outDoc) : outDoc[l].kind = "data"}
            cat(l) == outDoc[l].cells[1].s
            first(c) == CHOOSE k \in 1..Len(prod) :
                           /\ prod[k].Category = c
                           /\ \A j \in 1..(k - 1) : prod[j].Category # c
            rowsOf(c) == SelectSeq(prod, LAMBDA r : r.Category = c)
            cellsOf(r) == <<r.SKU, r.Description, Str(r.Category), r.UOM, Num(r.SoldQTY * 10)>>
            sectionAt(l, g) ==
                /\ l + Len(g) + 2 <= Len(outDoc)
                /\ outDoc[l + 1].kind = "header"
                /\ \A k \in 1..Len(g) :
                      /\ outDoc[l + 1 + k].kind = "data"
                      /\ outDoc[l + 1 + k].cells = cellsOf(g[k])
                /\ outDoc[l + Len(g) + 2].kind = "total"
                /\ outDoc[l + Len(g) + 2].cells[5].n = 10 * QtyTotal(g)
        IN /\ {cat(l) : l \in catAt} = {prod[k].Category : k \in 1..Len(prod)}
           /\ \A l1 \in catAt : \A l2 \in catAt : l1 < l2 => first(cat(l1)) < first(cat(l2))
           /\ \A l \in catAt : sectionAt(l, rowsOf(cat(l)))
           /\ Cardinality(dataAt) = summary.rows_total
           /\ Cardinality({l \in dataAt : outDoc[l].cells[5].n > 0}) = summary.rows_gt0

\* categories B, A, B, C in prod, written as the sections B, A, C
C12_Witness ==
    /\ JustCleaned
    /\ [k \in 1..Len(prod) |-> prod[k].Category] = <<<<"B">>, <<"A">>, <<"B">>, <<"C">>>>
    /\ [l \in 1..Len(outDoc) |-> outDoc[l].kind]
         = <<"title", "title", "title", "title", "blank",
             "category", "header", "data", "data", "total", "spacer",
             "category", "header", "data", "total", "spacer",
             "category", "header", "data", "total", "spacer">>
    /\ outDoc[6].cells[1].s = <<"B">> /\ outDoc[12].cells[1].s = <<"A">>
    /\ outDoc[17].cells[1].s = <<"C">>
    /\ summary.rows_total = 4 /\ summary.rows_gt0 = 2

\* a candidate that is present and visible
Visible(loc) == loc.kind = "ok" /\ Len(loc.matches) > 0 /\ loc.matches[1]

\* the click on the store a call must have made on the page it met
ExpectedStoreClick(page) ==
    IF Visible(page.target[1]) THEN <<"store_full_label">>
    ELSE IF Visible(page.target[2]) THEN <<"store_partial_name">>
    ELSE <<>>

\* C13: a call of select_store that met the modal shown and ended without an
\* exception clicked the store option, the full label if visible and else the
\* partial name, and then clicked Close if a Close control was visible; a call
\* that met no modal, or a hidden one, clicked nothing, raised nothing and
\* left the page as it was.
C13_SelectStore ==
    storeCall.calls > 0 =>
        /\ (storeCall.met.modal = "shown" /\ ~storeCall.caught) =>
              storeCall.clicks =
                 ExpectedStoreClick(storeCall.met)
                 \o (IF \E k \in 1..2 : Visible(storeCall.met.close[k])
                     THEN <<"close">> ELSE <<>>)
        /\ storeCall.met.modal \in {"absent", "hidden"} =>
              storeCall.clicks = <<>> /\ ~storeCall.caught /\ storeCall.page = storeCall.met

\* the same without the click on Close
C13_StoreClickOnly ==
    storeCall.calls > 0 =>
        /\ (storeCall.met.modal = "shown" /\ ~storeCall.caught) =>
              storeCall.clicks = ExpectedStoreClick(storeCall.met)
        /\ storeCall.met.modal \in {"absent", "hidden"} =>
              storeCall.clicks = <<>> /\ ~storeCall.caught /\ storeCall.page = storeCall.met

====
